---- MODULE Spec2Model ----
(***************************************************************************)
(* A model of the kicktool download backend.  A task lives in one of two   *)
(* registries: that of backend/main.py (run_download with its three        *)
(* strategies: the segment-accurate HLS path download_with_hls_segments,   *)
(* the direct FFmpeg path and the Streamlink fallback), or that of         *)
(* backend/services/downloader.py (DownloaderService.start_download, with  *)
(* cancel_task running at the coroutine's suspension points).              *)
(*                                                                         *)
(* Time is fixed point: every time value is a whole number of ticks,       *)
(* TicksPerSec ticks to the second.  Segment durations are whole ticks,    *)
(* requested times are whole seconds (time_to_seconds returns an int), so  *)
(* every sum and difference the code computes is exact.                    *)
(*                                                                         *)
(* An optional value (Python None or a value) is a sequence of length 0    *)
(* or 1.  A time string is [parts, bad]: parts are the fields between the  *)
(* colons, parts = <<>> is None or "", bad says some field is not an       *)
(* integer literal.                                                        *)
(***************************************************************************)
EXTENDS Integers, Sequences, FiniteSets, TLC

\* ------------------------------------------------------------- bounds
TicksPerSec == 4
MaxSegs == 3
MaxVariants == 3
MaxCancels == 2

\* Segment durations (ticks) a manifest may declare: 0.75 s and 1 s.
Durations == {3, 4}
\* BANDWIDTH attributes a master manifest may declare; <<>> is a missing one.
Bandwidths == {<<>>, <<0>>, <<5>>}
\* Messages an exception of the network layer may carry ("" is an empty str(e)).
Causes == {"", "HTTP 404"}
\* Exit codes of a subprocess.
ReturnCodes == {0, 1, 130}

NoTime == [parts |-> <<>>, bad |-> FALSE]
TimeStr(p) == [parts |-> p, bad |-> FALSE]
StartTimes == {NoTime, [parts |-> <<0>>, bad |-> TRUE], TimeStr(<<1>>),
               TimeStr(<<-1>>), TimeStr(<<0, 2>>)}
EndTimes == {NoTime, TimeStr(<<1>>), TimeStr(<<2>>), TimeStr(<<0, 0, 3>>),
             TimeStr(<<1, 0>>)}

\* All sequences over S of length lo..hi.
SeqsOf(S, lo, hi) == UNION {[1..n -> S] : n \in lo..hi}

\* ------------------------------------------------------------- values
NoExc == [text |-> "<none>", args |-> <<>>, cause |-> ""]
Exc(text, args, cause) == [text |-> text, args |-> args, cause |-> cause]
Msg(text, args) == [text |-> text, args |-> args, err |-> NoExc]
Frac(n, d) == [num |-> n, den |-> d]
NoCmd == [mode |-> "none", ss |-> <<>>, ss_text |-> NoTime, t |-> <<>>, input |-> ""]
NoProcess == [started |-> FALSE, running |-> FALSE, returncode |-> <<>>]
\* A scratch directory is [exists, files, name]; name 0 is no directory.
NoDir == [exists |-> FALSE, files |-> {}, name |-> 0]
\* A path that is the same for every segment.
SharedSegmentFile(i) == [kind |-> "segment", n |-> 0]

\* temp_dir / f"segment_{i:05d}.ts"
SegmentFile(i) == [kind |-> "segment", n |-> i]
ConcatFile == [kind |-> "concat", n |-> 0]

\* task_id = str(uuid.uuid4())[:8] of this task and of the other one.
OwnId == "id-a"
PeerId == "id-b"
\* The identifier create_task extracts from the URL: this task's, and the
\* other task's, which is for the same channel or for another one.
OwnIdentifier == "channel"
PeerIdentifier(p) == IF p.same_channel THEN "channel" ELSE "other"

\* timestamp = datetime.now().strftime("%Y%m%d_%H%M%S"): the second in which
\* create_task ran for this task, and for the other one, whose request is
\* handled within the same second.
OwnTimestamp == 0
PeerTimestamp == OwnTimestamp

\* DOWNLOAD_DIR / f"{identifier}_{timestamp}.mp4"
OutputPath(identifier, timestamp) == [identifier |-> identifier, timestamp |-> timestamp]

\* A temp path named after the identifier alone.
TempPathWithoutId(task_id, identifier) == [id |-> "", identifier |-> identifier]

\* TEMP_DIR / f"{task_id}_{identifier}.ts"
TempPath(task_id, identifier) == [id |-> task_id, identifier |-> identifier]

\* The names tempfile.mkdtemp may give a directory.
DirNames == 1..2

\* tempfile.mkdtemp: a new directory, under a name not in use.
Mkdtemp(taken) == CHOOSE n \in DirNames : n \notin taken

\* ------------------------------------------------------- pure functions
\* Whole seconds on the tick scale.
Secs(n) == n * TicksPerSec

\* time_to_seconds: HH:MM:SS, MM:SS or SS to seconds; 0 for None/"" and for
\* a string int() rejects.
time_to_seconds(s) ==
    IF s.parts = <<>> THEN 0
    ELSE IF s.bad THEN 0
    ELSE IF Len(s.parts) = 3 THEN s.parts[1] * 3600 + s.parts[2] * 60 + s.parts[3]
    ELSE IF Len(s.parts) = 2 THEN s.parts[1] * 60 + s.parts[2]
    ELSE s.parts[1]

\* Python truthiness of an optional string.
Truthy(s) == s.parts # <<>>

\* f"{x:.1f}" of a non-negative tick count: tenths of a second, the exact
\* value rounded half to even.
Fmt1f(x) ==
    LET n == x * 10
        q == n \div TicksPerSec
        r == n % TicksPerSec
    IN  IF 2 * r < TicksPerSec THEN q
        ELSE IF 2 * r > TicksPerSec THEN q + 1
        ELSE IF q % 2 = 0 THEN q ELSE q + 1

\* key=lambda p: p.stream_info.bandwidth or 0
BandwidthKey(v) == IF v.bandwidth = <<>> THEN 0 ELSE v.bandwidth[1]

\* One step of a stable descending sort: x goes behind every element whose
\* key is at least its own.
RECURSIVE InsertDesc(_, _)
InsertDesc(x, s) ==
    IF s = <<>> THEN <<x>>
    ELSE IF BandwidthKey(s[1]) >= BandwidthKey(x)
         THEN <<s[1]>> \o InsertDesc(x, Tail(s))
         ELSE <<x>> \o s

\* sorted(playlists, key=..., reverse=True): stable, equal keys keep their order.
RECURSIVE SortedByBandwidthDesc(_)
SortedByBandwidthDesc(s) ==
    IF s = <<>> THEN <<>>
    ELSE CHOOSE r \in {InsertDesc(s[Len(s)], head) :
                        head \in {SortedByBandwidthDesc(SubSeq(s, 1, Len(s) - 1))}} : TRUE

\* The choice of an ascending sort's last element: the last of the maxima.
LastOfSortedAscending(playlists) ==
    LET desc == SortedByBandwidthDesc(playlists)
        top == BandwidthKey(desc[1])
        ties == {k \in 1..Len(desc) : BandwidthKey(desc[k]) = top}
    IN  desc[CHOOSE k \in ties : \A j \in ties : j <= k]

\* variants = sorted(...); best_variant = variants[0]
BestVariant(playlists) == SortedByBandwidthDesc(playlists)[1]

\* A scan that advances current_time before it records the segment.
RECURSIVE AdvanceFirstLoop(_, _, _, _)
AdvanceFirstLoop(segments, i, cur, acc) ==
    IF i >= Len(segments) THEN [timed |-> acc, total |-> cur]
    ELSE LET seg == segments[i + 1]
             now == cur + seg.duration
             seg_info == [index |-> i, uri |-> seg.uri, start |-> now,
                          end |-> now + seg.duration, duration |-> seg.duration]
         IN  AdvanceFirstLoop(segments, i + 1, now, Append(acc, seg_info))

AdvanceFirstTimeline(segments) == AdvanceFirstLoop(segments, 0, 0, <<>>)

\* The loop of lines 404-417: acc is segments_with_times so far, cur is
\* current_time, i the 0-based enumerate index of the next segment.
RECURSIVE TimelineLoop(_, _, _, _)
TimelineLoop(segments, i, cur, acc) ==
    IF i >= Len(segments) THEN [timed |-> acc, total |-> cur]
    ELSE LET seg == segments[i + 1]
             seg_info == [index |-> i,
                          uri |-> seg.uri,
                          start |-> cur,
                          end |-> cur + seg.duration,
                          duration |-> seg.duration]
         IN  TimelineLoop(segments, i + 1, cur + seg.duration, Append(acc, seg_info))

\* A timeline whose scan does not accumulate: every segment starts at 0.
NonAccumulatingTimeline(segments) ==
    [timed |-> [k \in 1..Len(segments) |->
                   [index |-> k - 1, uri |-> segments[k].uri, start |-> 0,
                    end |-> segments[k].duration, duration |-> segments[k].duration]],
     total |-> IF segments = <<>> THEN 0 ELSE segments[Len(segments)].duration]

BuildTimeline(segments) == TimelineLoop(segments, 0, 0, <<>>)

\* The overlap test with closed ends: an abutting segment passes it.
ClosedOverlaps(seg, start, end) == seg.end >= start /\ seg.start <= end

\* An overlap test that joins its two halves with "or".
EitherSideOverlaps(seg, start, end) == seg.end > start \/ seg.start < end

\* Segment overlaps if it ends after our start AND starts before our end.
Overlaps(seg, start, end) == seg.end > start /\ seg.start < end

\* The filter loop of lines 429-433, in timeline order.
RECURSIVE SelectSegments(_, _, _)
SelectSegments(timed, start, end) ==
    IF timed = <<>> THEN <<>>
    ELSE (IF Overlaps(timed[1], start, end) THEN <<timed[1]>> ELSE <<>>)
         \o SelectSegments(Tail(timed), start, end)

\* start_sec of line 423, on the tick scale.
StartSec(t) == IF Truthy(t.start_time) THEN Secs(time_to_seconds(t.start_time)) ELSE 0

\* An end that is clamped to the total duration.
ClampedEndSec(t, total) ==
    IF Truthy(t.end_time) /\ Secs(time_to_seconds(t.end_time)) < total
    THEN Secs(time_to_seconds(t.end_time))
    ELSE total

\* end_sec of line 424, on the tick scale.
EndSec(t, total) == IF Truthy(t.end_time) THEN Secs(time_to_seconds(t.end_time)) ELSE total

\* A trim measured from the start of the timeline, not of the selection.
TrimFromTimelineStart(start, selected) == start

\* trim_start = start_sec - first_seg_start
TrimStart(start, selected) == start - selected[1].start

\* A duration that takes the end for the length.
EndAsDuration(start, end) == end

\* requested_duration = end_sec - start_sec
RequestedDuration(start, end) == end - start

\* A concat command that always carries -ss, even for a zero trim.
ConcatCmdAlwaysSeeking(trim_start, requested_duration) ==
    [mode |-> "concat",
     ss |-> <<trim_start>>,
     ss_text |-> NoTime,
     t |-> <<requested_duration>>,
     input |-> "concat.txt"]

\* The concat command of lines 484-505: -ss only for a positive trim, -t always.
ConcatCmd(trim_start, requested_duration) ==
    [mode |-> "concat",
     ss |-> IF trim_start > 0 THEN <<trim_start>> ELSE <<>>,
     ss_text |-> NoTime,
     t |-> <<requested_duration>>,
     input |-> "concat.txt"]

\* The seek a command performs: its -ss value, none being no seek.
EffectiveSeek(c) == IF c.ss = <<>> THEN 0 ELSE c.ss[1]

\* --------------------------------------------------------------- state
VARIABLES
    task,                \* the task's record in the registry (tasks[task_id])
    pc,                  \* where run_download stands
    exc,                 \* the exception in flight, NoExc when none
    loads,               \* the manifests loaded so far: 0 the playback URL, k variant k
    playlist,            \* the manifest document held in `playlist`
    best_variant,        \* <<the variant chosen>>, <<>> before a master is resolved
    segments_with_times, \* the timeline
    total_duration,
    start_sec,
    end_sec,
    selected_segments,
    temp_dir,            \* the scratch directory: whether it exists, its files
    i,                   \* the fetch loop's index
    seg_requests,        \* the segment URIs requested so far, in order
    segment_files,       \* the local paths appended so far
    concat_list,         \* <<the lines of concat.txt>>, <<>> while it is not written
    cmd,                 \* the FFmpeg argument vector
    process,             \* the subprocess
    output_exists,       \* task["output_path"] on disk
    temp_path_exists,    \* task["temp_path"] on disk
    ffmpeg_proc,         \* DownloaderService: the asyncio FFmpeg subprocess
    streamlink_error,    \* DownloaderService: <<the primary tool's error>>
    launched,            \* DownloaderService: the tools started, in order
    cancels,             \* DownloaderService: the calls of cancel_task so far
    peer,                \* main.py: another task of the registry, its record and scratch
    event_stream         \* main.py: the event generator of stream_events for the task

vars == <<task, pc, exc, loads, playlist, best_variant, segments_with_times,
          total_duration, start_sec, end_sec, selected_segments, temp_dir, i,
          seg_requests, segment_files, concat_list, cmd, process, output_exists,
          temp_path_exists, ffmpeg_proc, streamlink_error, launched, cancels,
          peer, event_stream>>

svc_vars == <<ffmpeg_proc, streamlink_error, launched, cancels>>

hls_vars == <<loads, playlist, best_variant, segments_with_times, total_duration,
              start_sec, end_sec, selected_segments, temp_dir, i, seg_requests,
              segment_files, concat_list>>

\* A media manifest served from source src (0 the playback URL, k variant k).
MediaPlaylist(src, durs) ==
    [is_variant |-> FALSE,
     playlists |-> <<>>,
     segments |-> [k \in 1..Len(durs) |->
                      [uri |-> [src |-> src, n |-> k - 1], duration |-> durs[k]]]]

\* A master manifest: its variants in manifest order.
MasterPlaylist(bws) ==
    [is_variant |-> TRUE,
     playlists |-> [k \in 1..Len(bws) |-> [bandwidth |-> bws[k], pos |-> k]],
     segments |-> <<>>]

NoPlaylist == [is_variant |-> FALSE, playlists |-> <<>>, segments |-> <<>>]

\* No other task in the registry.
NoPeer ==
    [present |-> FALSE,
     same_channel |-> FALSE,
     status |-> "pending",
     progress |-> Frac(0, 1),
     message |-> Msg("Initializing...", <<>>),
     error |-> NoExc,
     temp |-> FALSE,
     dir |-> 0]

\* The other task's temp path is this task's temp path.
SamePath(p) ==
    p.present /\ TempPath(PeerId, PeerIdentifier(p)) = TempPath(OwnId, OwnIdentifier)

\* The other task after this task has written (exists) or removed (~exists)
\* the file at its own temp path.
PeerAfterTempPath(p, exists) == IF SamePath(p) THEN [p EXCEPT !.temp = exists] ELSE p

\* The other task after shutil.rmtree of the directory dir.
PeerAfterRmtree(p, dir) ==
    IF p.present /\ dir.exists /\ p.dir = dir.name THEN [p EXCEPT !.dir = 0] ELSE p

\* No request for the task's events so far.
NoStream == [state |-> "none", last |-> <<>>, terminal_events |-> 0]

\* Nothing has run yet: no manifest, no scratch directory, no subprocess,
\* nothing on disk.
AtRest ==
    /\ event_stream = NoStream
    /\ exc = NoExc
    /\ loads = <<>>
    /\ playlist = NoPlaylist
    /\ best_variant = <<>>
    /\ segments_with_times = <<>>
    /\ total_duration = 0
    /\ start_sec = 0
    /\ end_sec = 0
    /\ selected_segments = <<>>
    /\ temp_dir = NoDir
    /\ i = 0
    /\ seg_requests = <<>>
    /\ segment_files = <<>>
    /\ concat_list = <<>>
    /\ cmd = NoCmd
    /\ process = NoProcess
    /\ output_exists = FALSE
    /\ temp_path_exists = FALSE
    /\ ffmpeg_proc = NoProcess
    /\ streamlink_error = <<>>
    /\ launched = <<>>
    /\ cancels = 0

\* main.py create_task: a registered task, pending.
MainInit ==
    /\ task \in [url_is_vod : BOOLEAN,
                 has_playback_url : BOOLEAN,
                 dvr_mode : BOOLEAN,
                 start_time : StartTimes,
                 end_time : EndTimes,
                 status : {"pending"},
                 progress : {Frac(0, 1)},
                 message : {Msg("Initializing...", <<>>)},
                 error : {NoExc}]
    /\ pc = "created"
    /\ AtRest
    /\ peer = NoPeer

\* main.py create_task, twice: a live DVR request, with or without a playback
\* URL, and another task registered next to it, for the same channel or not.
TwoTaskInit ==
    /\ task \in [url_is_vod : {FALSE},
                 has_playback_url : BOOLEAN,
                 dvr_mode : {TRUE},
                 start_time : {TimeStr(<<1>>)},
                 end_time : {NoTime},
                 status : {"pending"},
                 progress : {Frac(0, 1)},
                 message : {Msg("Initializing...", <<>>)},
                 error : {NoExc}]
    /\ pc = "created"
    /\ AtRest
    /\ peer \in [present : {TRUE},
                 same_channel : BOOLEAN,
                 status : {"pending"},
                 progress : {Frac(0, 1)},
                 message : {Msg("Initializing...", <<>>)},
                 error : {NoExc},
                 temp : {FALSE},
                 dir : {0}]

\* DownloaderService.create_task: a registered DownloadTask, PENDING.
ServiceInit ==
    /\ task \in [url_is_vod : {FALSE},
                 has_playback_url : {FALSE},
                 dvr_mode : BOOLEAN,
                 start_time : {NoTime, TimeStr(<<1>>)},
                 end_time : {NoTime, TimeStr(<<2>>)},
                 status : {"pending"},
                 progress : {Frac(0, 1)},
                 message : {Msg("Initializing...", <<>>)},
                 error : {NoExc}]
    /\ pc = "svc_created"
    /\ AtRest
    /\ peer = NoPeer

Init == MainInit \/ TwoTaskInit \/ ServiceInit

\* The strategy run_download routes a task to.
Route(t) ==
    IF t.has_playback_url
    THEN IF ~t.url_is_vod /\ (Truthy(t.start_time) \/ Truthy(t.end_time)) /\ t.dvr_mode
         THEN "hls_load"
         ELSE "direct_start"
    ELSE "sl_start"

\* run_download up to the call of a strategy.
RunDownload ==
    /\ UNCHANGED event_stream
    /\ UNCHANGED svc_vars
    /\ UNCHANGED peer
    /\ pc = "created"
    /\ task' = [task EXCEPT !.status = "downloading"]
    /\ pc' = Route(task)
    /\ UNCHANGED <<exc, hls_vars, cmd, process, output_exists, temp_path_exists>>

\* m3u8.load of the playback URL: it fails, or answers a media or a master manifest.
HlsLoadPlaylist ==
    /\ UNCHANGED event_stream
    /\ UNCHANGED svc_vars
    /\ UNCHANGED peer
    /\ pc = "hls_load"
    /\ task' = [task EXCEPT !.message = Msg("Parsing HLS playlist...", <<>>)]
    /\ loads' = Append(loads, 0)
    /\ \/ \E c \in Causes :
             /\ exc' = Exc("Failed to load HLS playlist", <<>>, c)
             /\ pc' = "except"
             /\ UNCHANGED playlist
       \/ \E durs \in SeqsOf(Durations, 0, MaxSegs) :
             /\ playlist' = MediaPlaylist(0, durs)
             /\ pc' = "hls_timeline"
             /\ UNCHANGED exc
       \/ \E bws \in SeqsOf(Bandwidths, 1, MaxVariants) :
             /\ playlist' = MasterPlaylist(bws)
             /\ pc' = "hls_variant"
             /\ UNCHANGED exc
    /\ UNCHANGED <<best_variant, segments_with_times, total_duration, start_sec,
                   end_sec, selected_segments, temp_dir, i, seg_requests,
                   segment_files, concat_list, cmd, process, output_exists,
                   temp_path_exists>>

\* A master manifest: the best variant is chosen and its media manifest loaded
\* (outside any try: a failure of this load propagates as it is).
HlsLoadVariant ==
    /\ UNCHANGED event_stream
    /\ UNCHANGED svc_vars
    /\ UNCHANGED peer
    /\ pc = "hls_variant"
    /\ playlist.is_variant
    /\ LET best == BestVariant(playlist.playlists)
       IN  /\ best_variant' = <<best>>
           /\ loads' = Append(loads, best.pos)
           /\ \/ \E c \in Causes :
                    /\ exc' = Exc("", <<>>, c)
                    /\ pc' = "except"
                    /\ UNCHANGED playlist
              \/ \E durs \in SeqsOf(Durations, 0, MaxSegs) :
                    /\ playlist' = MediaPlaylist(best.pos, durs)
                    /\ pc' = "hls_timeline"
                    /\ UNCHANGED exc
    /\ UNCHANGED <<task, segments_with_times, total_duration, start_sec, end_sec,
                   selected_segments, temp_dir, i, seg_requests, segment_files,
                   concat_list, cmd, process, output_exists, temp_path_exists>>

\* A check that lets every manifest pass.
NeverEmpty(pl) == FALSE

\* if not playlist.segments
NoSegments(pl) == pl.segments = <<>>

\* The empty-manifest check and the timeline scan (lines 399-420).
HlsBuildTimeline ==
    /\ UNCHANGED event_stream
    /\ UNCHANGED svc_vars
    /\ UNCHANGED peer
    /\ pc = "hls_timeline"
    /\ IF NoSegments(playlist)
       THEN /\ exc' = Exc("No segments found in HLS playlist", <<>>, "")
            /\ pc' = "except"
            /\ UNCHANGED <<segments_with_times, total_duration>>
       ELSE LET tl == BuildTimeline(playlist.segments)
            IN  /\ segments_with_times' = tl.timed
                /\ total_duration' = tl.total
                /\ pc' = "hls_select"
                /\ UNCHANGED exc
    /\ UNCHANGED <<task, loads, playlist, best_variant, start_sec, end_sec,
                   selected_segments, temp_dir, i, seg_requests, segment_files,
                   concat_list, cmd, process, output_exists, temp_path_exists>>

\* An error that reports the requested end where the total belongs.
RangeErrorWithoutTotal(start, end, total) ==
    Exc("No segments found in requested time range", <<start, end, Fmt1f(end)>>, "")

\* The message of the error raised for an empty selection.
RangeError(start, end, total) ==
    Exc("No segments found in requested time range", <<start, end, Fmt1f(total)>>, "")

\* The requested range and the selection (lines 422-438).
HlsSelectRange ==
    /\ UNCHANGED event_stream
    /\ UNCHANGED svc_vars
    /\ UNCHANGED peer
    /\ pc = "hls_select"
    /\ LET s == StartSec(task)
           e == EndSec(task, total_duration)
           sel == SelectSegments(segments_with_times, s, e)
       IN  /\ start_sec' = s
           /\ end_sec' = e
           /\ selected_segments' = sel
           /\ IF sel = <<>>
              THEN /\ exc' = RangeError(s, e, total_duration)
                   /\ pc' = "except"
              ELSE /\ pc' = "hls_mkdtemp"
                   /\ UNCHANGED exc
    /\ UNCHANGED <<task, loads, playlist, best_variant, segments_with_times,
                   total_duration, temp_dir, i, seg_requests, segment_files,
                   concat_list, cmd, process, output_exists, temp_path_exists>>

\* str(e) if str(e) else "Unknown error"
ErrorMsg(e) ==
    IF e.text = "" /\ e.cause = "" THEN Exc("Unknown error", <<>>, "") ELSE e

\* tempfile.mkdtemp and the first lines of the try block (lines 440-445).
HlsMkdtemp ==
    /\ UNCHANGED event_stream
    /\ UNCHANGED svc_vars
    /\ UNCHANGED peer
    /\ pc = "hls_mkdtemp"
    /\ temp_dir' = [exists |-> TRUE, files |-> {}, name |-> Mkdtemp({peer.dir})]
    /\ segment_files' = <<>>
    /\ i' = 0
    /\ task' = [task EXCEPT
                   !.message = Msg("Downloading segments...", <<Len(selected_segments)>>)]
    /\ pc' = "hls_fetch"
    /\ UNCHANGED <<exc, loads, playlist, best_variant, segments_with_times,
                   total_duration, start_sec, end_sec, selected_segments,
                   seg_requests, concat_list, cmd, process, output_exists,
                   temp_path_exists>>

\* A download phase that runs past the 85 of the concat step.
FetchProgressOfNinety(k, n) == Frac((k + 1) * 90, n)

\* A download phase that takes the whole scale.
FetchProgressOfHundred(k, n) == Frac((k + 1) * 100, n)

\* progress = (i + 1) / len(selected_segments) * 80
FetchProgress(k, n) == Frac((k + 1) * 80, n)

\* A loop that stops one segment short.
FetchLoopEndsEarly(k, n) == k >= n - 1

\* for i, seg in enumerate(selected_segments): the loop is over once k of the
\* n segments are done.
FetchLoopEnds(k, n) == k >= n

\* An error that counts the segments from 1, as the progress message does.
OneBasedSegmentError(k, seg, c) == Exc("Failed to download segment", <<k + 1>>, c)

\* The error of a failed segment download: it names the loop index.
SegmentError(k, seg, c) == Exc("Failed to download segment", <<k>>, c)

\* One pass of the fetch loop (lines 448-468): the segment is requested once;
\* the request fails, or the write of the file fails, or the path is appended.
HlsFetchSegment ==
    /\ UNCHANGED event_stream
    /\ UNCHANGED svc_vars
    /\ UNCHANGED peer
    /\ pc = "hls_fetch"
    /\ i < Len(selected_segments)
    /\ LET n == Len(selected_segments)
           seg == selected_segments[i + 1]
       IN  /\ task' = [task EXCEPT
                          !.progress = FetchProgress(i, n),
                          !.message = Msg("Downloading segment...", <<i + 1, n>>)]
           /\ seg_requests' = Append(seg_requests, seg.uri)
           /\ \/ \E c \in Causes :
                    /\ exc' = SegmentError(i, seg, c)
                    /\ pc' = "hls_finally"
                    /\ UNCHANGED <<temp_dir, segment_files, i>>
              \/ \E c \in Causes :
                    /\ temp_dir' = [temp_dir EXCEPT !.files = @ \cup {SegmentFile(i)}]
                    /\ exc' = SegmentError(i, seg, c)
                    /\ pc' = "hls_finally"
                    /\ UNCHANGED <<segment_files, i>>
              \/ /\ temp_dir' = [temp_dir EXCEPT !.files = @ \cup {SegmentFile(i)}]
                 /\ segment_files' = Append(segment_files, SegmentFile(i))
                 /\ i' = i + 1
                 /\ pc' = IF FetchLoopEnds(i + 1, n) THEN "hls_concat" ELSE "hls_fetch"
                 /\ UNCHANGED exc
    /\ UNCHANGED <<loads, playlist, best_variant, segments_with_times,
                   total_duration, start_sec, end_sec, selected_segments,
                   concat_list, cmd, process, output_exists, temp_path_exists>>

\* concat.txt, one line per downloaded file in order (lines 470-481).
HlsWriteConcat ==
    /\ UNCHANGED event_stream
    /\ UNCHANGED svc_vars
    /\ UNCHANGED peer
    /\ pc = "hls_concat"
    /\ temp_dir' = [temp_dir EXCEPT !.files = @ \cup {ConcatFile}]
    /\ concat_list' = <<segment_files>>
    /\ task' = [task EXCEPT !.message = Msg("Joining segments...", <<>>),
                            !.progress = Frac(85, 1)]
    /\ pc' = "hls_remux"
    /\ UNCHANGED <<exc, loads, playlist, best_variant, segments_with_times,
                   total_duration, start_sec, end_sec, selected_segments, i,
                   seg_requests, segment_files, cmd, process, output_exists,
                   temp_path_exists>>

\* The command is built and FFmpeg started (lines 483-517).
HlsStartRemux ==
    /\ UNCHANGED event_stream
    /\ UNCHANGED svc_vars
    /\ UNCHANGED peer
    /\ pc = "hls_remux"
    /\ cmd' = ConcatCmd(TrimStart(start_sec, selected_segments),
                        RequestedDuration(start_sec, end_sec))
    /\ task' = [task EXCEPT !.message = Msg("Converting to MP4...", <<>>),
                            !.progress = Frac(90, 1)]
    /\ process' = [started |-> TRUE, running |-> TRUE, returncode |-> <<>>]
    /\ pc' = "hls_wait"
    /\ UNCHANGED <<exc, hls_vars, output_exists, temp_path_exists>>

\* A success that looks at the exit code alone.
OutcomeIgnoringOutput(failure, rc, exists) ==
    IF rc # 0 THEN Exc(failure, <<>>, "") ELSE NoExc

\* What the checks after process.wait() raise: the failure text for a nonzero
\* exit code, "Output file was not created" for a missing output, else nothing.
FfmpegOutcome(failure, rc, exists) ==
    IF rc # 0 THEN Exc(failure, <<>>, "")
    ELSE IF ~exists THEN Exc("Output file was not created", <<>>, "")
    ELSE NoExc

\* The task record of a finished download.
Completed(t) ==
    [t EXCEPT !.status = "completed",
              !.progress = Frac(100, 1),
              !.message = Msg("Download complete!", <<>>)]

\* FFmpeg exits (lines 519-540): any exit code, the output written or not.
HlsRemuxExit ==
    /\ UNCHANGED event_stream
    /\ UNCHANGED svc_vars
    /\ UNCHANGED peer
    /\ pc = "hls_wait"
    /\ \E rc \in ReturnCodes, written \in BOOLEAN :
          LET e == FfmpegOutcome("FFmpeg concatenation failed", rc, written)
          IN  /\ process' = [process EXCEPT !.running = FALSE, !.returncode = <<rc>>]
              /\ output_exists' = written
              /\ exc' = e
              /\ task' = IF e = NoExc THEN Completed(task) ELSE task
    /\ pc' = "hls_finally"
    /\ UNCHANGED <<hls_vars, cmd, temp_path_exists>>

\* A cleanup that runs on the success path only.
RemoveTreeOnSuccess(dir, e) == IF e = NoExc THEN NoDir ELSE dir

\* finally: shutil.rmtree(temp_dir), whatever is in flight.
RemoveTree(dir, e) == NoDir

\* The finally block of download_with_hls_segments (lines 542-549).
HlsFinally ==
    /\ UNCHANGED event_stream
    /\ UNCHANGED svc_vars
    /\ pc = "hls_finally"
    /\ temp_dir' = RemoveTree(temp_dir, exc)
    /\ peer' = IF temp_dir' = NoDir THEN PeerAfterRmtree(peer, temp_dir) ELSE peer
    /\ pc' = IF exc = NoExc THEN "done" ELSE "except"
    /\ UNCHANGED <<task, exc, loads, playlist, best_variant, segments_with_times,
                   total_duration, start_sec, end_sec, selected_segments, i,
                   seg_requests, segment_files, concat_list, cmd, process,
                   output_exists, temp_path_exists>>

\* run_download's handler, its first statements (lines 251-256): the task is
\* marked failed.
RunDownloadExcept ==
    /\ UNCHANGED event_stream
    /\ UNCHANGED svc_vars
    /\ UNCHANGED peer
    /\ pc = "except"
    /\ task' = [task EXCEPT
                   !.status = "failed",
                   !.error = ErrorMsg(exc),
                   !.message = [text |-> "Failed", args |-> <<>>, err |-> ErrorMsg(exc)]]
    /\ exc' = NoExc
    /\ pc' = "except_cleanup"
    /\ UNCHANGED <<hls_vars, cmd, process, output_exists, temp_path_exists>>

\* The rest of the handler (lines 258-262): the temp file is removed if it is
\* there.
RunDownloadCleanup ==
    /\ UNCHANGED event_stream
    /\ UNCHANGED svc_vars
    /\ pc = "except_cleanup"
    /\ temp_path_exists' = FALSE
    /\ peer' = IF temp_path_exists THEN PeerAfterTempPath(peer, FALSE) ELSE peer
    /\ pc' = "done"
    /\ UNCHANGED <<task, exc, hls_vars, cmd, process, output_exists>>

\* A cap that is passed whenever an end time is given, whatever its sign.
CapWithoutGuard(t) ==
    IF Truthy(t.end_time)
    THEN <<Secs(time_to_seconds(t.end_time)
                - (IF Truthy(t.start_time) THEN time_to_seconds(t.start_time) ELSE 0))>>
    ELSE <<>>

\* The duration cap of the direct and Streamlink commands: end - start seconds
\* when an end time is given and the difference is positive.
DurationCap(t) ==
    IF Truthy(t.end_time)
    THEN LET start == IF Truthy(t.start_time) THEN time_to_seconds(t.start_time) ELSE 0
             duration == time_to_seconds(t.end_time) - start
         IN  IF duration > 0 THEN <<Secs(duration)>> ELSE <<>>
    ELSE <<>>

\* The command of download_with_ffmpeg_direct (lines 277-309).
DirectCmd(t) ==
    [mode |-> "direct",
     ss |-> <<>>,
     ss_text |-> IF Truthy(t.start_time) THEN t.start_time ELSE NoTime,
     t |-> DurationCap(t),
     input |-> "playback_url"]

\* download_with_ffmpeg_direct up to the start of FFmpeg (lines 274-322).
DirectStart ==
    /\ UNCHANGED event_stream
    /\ UNCHANGED svc_vars
    /\ UNCHANGED peer
    /\ pc = "direct_start"
    /\ cmd' = DirectCmd(task)
    /\ task' = [task EXCEPT !.message = Msg("Downloading from stream...", <<>>)]
    /\ process' = [started |-> TRUE, running |-> TRUE, returncode |-> <<>>]
    /\ pc' = "direct_wait"
    /\ UNCHANGED <<exc, hls_vars, output_exists, temp_path_exists>>

\* FFmpeg exits (lines 325-357).
DirectExit ==
    /\ UNCHANGED event_stream
    /\ UNCHANGED svc_vars
    /\ UNCHANGED peer
    /\ pc = "direct_wait"
    /\ \E rc \in ReturnCodes, written \in BOOLEAN :
          LET e == FfmpegOutcome("FFmpeg download failed", rc, written)
          IN  /\ process' = [process EXCEPT !.running = FALSE, !.returncode = <<rc>>]
              /\ output_exists' = written
              /\ exc' = e
              /\ task' = IF e = NoExc THEN Completed(task) ELSE task
              /\ pc' = IF e = NoExc THEN "done" ELSE "except"
    /\ UNCHANGED <<hls_vars, cmd, temp_path_exists>>

\* download_with_streamlink up to the start of Streamlink (lines 555-587).
SlStart ==
    /\ UNCHANGED event_stream
    /\ UNCHANGED svc_vars
    /\ UNCHANGED peer
    /\ pc = "sl_start"
    /\ cmd' = [mode |-> "streamlink", ss |-> <<>>, ss_text |-> NoTime,
               t |-> DurationCap(task), input |-> "url"]
    /\ task' = [task EXCEPT !.message = Msg("Downloading with Streamlink...", <<>>)]
    /\ process' = [started |-> TRUE, running |-> TRUE, returncode |-> <<>>]
    /\ pc' = "sl_wait"
    /\ UNCHANGED <<exc, hls_vars, output_exists, temp_path_exists>>

\* Streamlink exits (lines 589-609): 0 and 130 pass.
SlExit ==
    /\ UNCHANGED event_stream
    /\ UNCHANGED svc_vars
    /\ pc = "sl_wait"
    /\ \E rc \in ReturnCodes, written \in BOOLEAN :
          /\ process' = [process EXCEPT !.running = FALSE, !.returncode = <<rc>>]
          /\ temp_path_exists' = written
          /\ peer' = IF written THEN PeerAfterTempPath(peer, TRUE) ELSE peer
          /\ IF rc \notin {0, 130}
             THEN /\ exc' = Exc("Streamlink failed", <<>>, "")
                  /\ pc' = "except"
             ELSE /\ pc' = IF written THEN "sl_convert" ELSE "sl_verify"
                  /\ UNCHANGED exc
    /\ UNCHANGED <<task, hls_vars, cmd, output_exists>>

\* The conversion of the recording to MP4 (lines 612-628).
SlConvert ==
    /\ UNCHANGED event_stream
    /\ UNCHANGED svc_vars
    /\ pc = "sl_convert"
    /\ task' = [task EXCEPT !.message = Msg("Converting to MP4...", <<>>)]
    /\ \E rc \in ReturnCodes, written \in BOOLEAN :
          /\ output_exists' = written
          /\ IF rc # 0
             THEN /\ exc' = Exc("FFmpeg conversion failed", <<>>, "")
                  /\ pc' = "except"
                  /\ UNCHANGED temp_path_exists
             ELSE /\ temp_path_exists' = FALSE
                  /\ pc' = "sl_verify"
                  /\ UNCHANGED exc
    /\ peer' = IF temp_path_exists' # temp_path_exists
               THEN PeerAfterTempPath(peer, FALSE)
               ELSE peer
    /\ UNCHANGED <<hls_vars, cmd, process>>

\* The output check at the end of download_with_streamlink (lines 630-639).
SlVerify ==
    /\ UNCHANGED event_stream
    /\ UNCHANGED svc_vars
    /\ UNCHANGED peer
    /\ pc = "sl_verify"
    /\ IF ~output_exists
       THEN /\ exc' = Exc("Output file was not created", <<>>, "")
            /\ pc' = "except"
            /\ UNCHANGED task
       ELSE /\ task' = Completed(task)
            /\ pc' = "done"
            /\ UNCHANGED exc
    /\ UNCHANGED <<hls_vars, cmd, process, output_exists, temp_path_exists>>

\* ------------------------------------------------- the other task
\* The other task's run_download starts: its record goes to downloading.
PeerRun ==
    /\ UNCHANGED event_stream
    /\ peer.present
    /\ peer.status = "pending"
    /\ peer' = [peer EXCEPT !.status = "downloading"]
    /\ UNCHANGED <<task, pc, exc, hls_vars, cmd, process, output_exists,
                   temp_path_exists, svc_vars>>

\* The other task makes its scratch: the directory of the segment path
\* (mkdtemp) or the temp file of the Streamlink path, written at its temp
\* path.
PeerScratch ==
    /\ UNCHANGED event_stream
    /\ peer.present
    /\ peer.status = "downloading"
    /\ peer.dir = 0
    /\ ~peer.temp
    /\ \/ /\ peer' = [peer EXCEPT
                          !.dir = Mkdtemp({temp_dir.name}),
                          !.message = Msg("Downloading segments...", <<>>)]
          /\ UNCHANGED temp_path_exists
       \/ /\ peer' = [peer EXCEPT
                          !.temp = TRUE,
                          !.message = Msg("Downloading with Streamlink...", <<>>)]
          /\ temp_path_exists' = IF SamePath(peer) THEN TRUE ELSE temp_path_exists
    /\ UNCHANGED <<task, pc, exc, hls_vars, cmd, process, output_exists, svc_vars>>

\* The other task ends, completed or failed: its scratch directory is removed
\* by name (rmtree in the finally block) and its temp file by path.
PeerFinish ==
    /\ UNCHANGED event_stream
    /\ peer.present
    /\ peer.status = "downloading"
    /\ \E ok \in BOOLEAN :
          peer' = IF ok
                  THEN [peer EXCEPT !.status = "completed",
                                    !.progress = Frac(100, 1),
                                    !.message = Msg("Download complete!", <<>>),
                                    !.temp = FALSE,
                                    !.dir = 0]
                  ELSE [peer EXCEPT !.status = "failed",
                                    !.error = Exc("FFmpeg download failed", <<>>, ""),
                                    !.message = [text |-> "Failed", args |-> <<>>,
                                                 err |-> Exc("FFmpeg download failed",
                                                             <<>>, "")],
                                    !.temp = FALSE,
                                    !.dir = 0]
    /\ temp_dir' = IF temp_dir.exists /\ peer.dir = temp_dir.name THEN NoDir ELSE temp_dir
    /\ temp_path_exists' = IF SamePath(peer) /\ peer.temp THEN FALSE ELSE temp_path_exists
    /\ UNCHANGED <<task, pc, exc, loads, playlist, best_variant, segments_with_times,
                   total_duration, start_sec, end_sec, selected_segments, i,
                   seg_requests, segment_files, concat_list, cmd, process,
                   output_exists, svc_vars>>

\* ------------------------------------------------- DownloaderService
main_vars == <<loads, playlist, best_variant, segments_with_times, total_duration,
               start_sec, end_sec, selected_segments, temp_dir, i, seg_requests,
               segment_files, concat_list, cmd>>

Running == [started |-> TRUE, running |-> TRUE, returncode |-> <<>>]
Exited(rc) == [started |-> TRUE, running |-> FALSE, returncode |-> <<rc>>]

\* DownloadTask.is_running
IsRunning(t) == t.status \in {"pending", "downloading", "processing"}

\* start_download up to the await of the cookie fetch (lines 158-166).
SvcStart ==
    /\ UNCHANGED event_stream
    /\ UNCHANGED peer
    /\ pc = "svc_created"
    /\ task' = [task EXCEPT !.message = Msg("Bypassing Cloudflare protection...", <<>>)]
    /\ pc' = "svc_cookies"
    /\ UNCHANGED <<exc, main_vars, process, output_exists, temp_path_exists, svc_vars>>

\* The cookies are back: DOWNLOADING, and Streamlink is started (lines 169-175,
\* 215-269).  From here to the next await the coroutine does not yield.
SvcStreamlinkStart ==
    /\ UNCHANGED event_stream
    /\ UNCHANGED peer
    /\ pc = "svc_cookies"
    /\ task' = [task EXCEPT !.status = "downloading",
                            !.message = Msg("Downloading with Streamlink...", <<>>)]
    /\ process' = Running
    /\ launched' = Append(launched, "streamlink")
    /\ pc' = "svc_streamlink"
    /\ UNCHANGED <<exc, main_vars, output_exists, temp_path_exists, ffmpeg_proc,
                   streamlink_error, cancels>>

\* Streamlink exits (lines 275-324): a code other than 0 and 130, or a missing
\* file, is the primary tool's failure.
SvcStreamlinkExit ==
    /\ UNCHANGED event_stream
    /\ UNCHANGED peer
    /\ pc = "svc_streamlink"
    /\ \E rc \in ReturnCodes, written \in BOOLEAN :
          /\ process' = Exited(rc)
          /\ temp_path_exists' = written
          /\ IF rc \notin {0, 130}
             THEN /\ streamlink_error' =
                        <<Exc("Streamlink failed with exit code", <<rc>>, "")>>
                  /\ pc' = "svc_fallback"
             ELSE IF ~written
             THEN /\ streamlink_error' = <<Exc("Output file was not created", <<>>, "")>>
                  /\ pc' = "svc_fallback"
             ELSE /\ pc' = "svc_process"
                  /\ UNCHANGED streamlink_error
    /\ UNCHANGED <<task, exc, main_vars, output_exists, ffmpeg_proc, launched, cancels>>

\* The fallback: yt-dlp is started (lines 176-183, 333-380).
SvcYtdlpStart ==
    /\ UNCHANGED event_stream
    /\ UNCHANGED peer
    /\ pc = "svc_fallback"
    /\ task' = [task EXCEPT !.message = Msg("Downloading with yt-dlp...", <<>>)]
    /\ process' = Running
    /\ launched' = Append(launched, "yt-dlp")
    /\ pc' = "svc_ytdlp"
    /\ UNCHANGED <<exc, main_vars, output_exists, temp_path_exists, ffmpeg_proc,
                   streamlink_error, cancels>>

\* An error that reports the fallback tool alone.
FallbackErrorAlone(sl) == Exc("yt-dlp download failed", <<>>, "")

\* raise Exception(f"Streamlink: {streamlink_error}; yt-dlp: {str(ytdlp_err)}")
CombinedError(sl) ==
    Exc("Streamlink: ; yt-dlp: yt-dlp download failed", sl.args, sl.text)

\* yt-dlp exits (lines 382-395, 397-414): a "Merging" line sets PROCESSING; a
\* nonzero code raises the error that combines both tools' messages.
SvcYtdlpExit ==
    /\ UNCHANGED event_stream
    /\ UNCHANGED peer
    /\ pc = "svc_ytdlp"
    /\ \E rc \in ReturnCodes, written \in BOOLEAN, merging \in BOOLEAN :
          /\ process' = Exited(rc)
          /\ temp_path_exists' = (temp_path_exists \/ written)
          /\ task' = IF merging THEN [task EXCEPT !.status = "processing"] ELSE task
          /\ IF rc # 0
             THEN /\ exc' = CombinedError(streamlink_error[1])
                  /\ pc' = "svc_except"
             ELSE /\ pc' = "svc_process"
                  /\ UNCHANGED exc
    /\ UNCHANGED <<main_vars, output_exists, ffmpeg_proc, streamlink_error, launched,
                   cancels>>

\* needs_post_clip
NeedsPostClip(t) == ~t.dvr_mode /\ (Truthy(t.start_time) \/ Truthy(t.end_time))

\* _process_downloaded_file up to the await that creates FFmpeg (lines 419-435).
SvcProcessBegin ==
    /\ UNCHANGED event_stream
    /\ UNCHANGED peer
    /\ pc = "svc_process"
    /\ IF ~temp_path_exists
       THEN /\ exc' = Exc("Downloaded file not found", <<>>, "")
            /\ pc' = "svc_except"
            /\ UNCHANGED task
       ELSE /\ task' = [task EXCEPT
                           !.status = "processing",
                           !.message = IF NeedsPostClip(task)
                                       THEN Msg("Clipping and converting to MP4...", <<>>)
                                       ELSE Msg("Converting to MP4...", <<>>)]
            /\ pc' = "svc_spawn"
            /\ UNCHANGED exc
    /\ UNCHANGED <<main_vars, process, output_exists, temp_path_exists, svc_vars>>

\* asyncio.create_subprocess_exec returns: FFmpeg runs (lines 474-479, 497-502).
SvcFfmpegSpawn ==
    /\ UNCHANGED event_stream
    /\ UNCHANGED peer
    /\ pc = "svc_spawn"
    /\ ffmpeg_proc' = Running
    /\ launched' = Append(launched, "ffmpeg")
    /\ pc' = "svc_ffmpeg_wait"
    /\ UNCHANGED <<task, exc, main_vars, process, output_exists, temp_path_exists,
                   streamlink_error, cancels>>

\* FFmpeg exits (lines 479-482, 502-505) and _process_downloaded_file ends
\* (lines 437-445): the temp file is removed, then the output decides.
SvcFfmpegExit ==
    /\ UNCHANGED event_stream
    /\ UNCHANGED peer
    /\ pc = "svc_ffmpeg_wait"
    /\ \E rc \in ReturnCodes, written \in BOOLEAN :
          /\ ffmpeg_proc' = Exited(rc)
          /\ output_exists' = written
          /\ IF rc # 0
             THEN /\ exc' = IF NeedsPostClip(task)
                            THEN Exc("Failed to clip and convert video", <<>>, "")
                            ELSE Exc("Failed to convert to MP4", <<>>, "")
                  /\ pc' = "svc_except"
                  /\ UNCHANGED <<task, temp_path_exists>>
             ELSE /\ temp_path_exists' = FALSE
                  /\ IF written
                     THEN /\ task' = Completed(task)
                          /\ pc' = "svc_done"
                          /\ UNCHANGED exc
                     ELSE /\ exc' = Exc("Final output file was not created", <<>>, "")
                          /\ pc' = "svc_except"
                          /\ UNCHANGED task
    /\ UNCHANGED <<main_vars, process, streamlink_error, launched, cancels>>

\* str(e) if str(e) else "Unknown error occurred"
SvcErrorMsg(e) ==
    IF e.text = "" /\ e.cause = "" THEN Exc("Unknown error occurred", <<>>, "") ELSE e

\* _cleanup_temp: the temp file is removed if it is there.
CleanupTemp(exists) == FALSE

\* start_download's handler of Exception, its first statements (lines
\* 198-204): the task is marked FAILED.
SvcExcept ==
    /\ UNCHANGED event_stream
    /\ UNCHANGED peer
    /\ pc = "svc_except"
    /\ task' = [task EXCEPT
                   !.status = "failed",
                   !.error = SvcErrorMsg(exc),
                   !.message = [text |-> "Failed", args |-> <<>>, err |-> SvcErrorMsg(exc)]]
    /\ exc' = NoExc
    /\ pc' = "svc_except_cleanup"
    /\ UNCHANGED <<main_vars, process, output_exists, temp_path_exists, svc_vars>>

\* The handler's last statement (line 205): _cleanup_temp.
SvcExceptCleanup ==
    /\ UNCHANGED event_stream
    /\ UNCHANGED peer
    /\ pc = "svc_except_cleanup"
    /\ temp_path_exists' = CleanupTemp(temp_path_exists)
    /\ pc' = "svc_done"
    /\ UNCHANGED <<task, exc, main_vars, process, output_exists, svc_vars>>

\* The places where start_download is suspended at an await.
Suspended == pc \in {"svc_cookies", "svc_spawn", "svc_ffmpeg_wait"}

\* start_download's handler of asyncio.CancelledError (lines 193-197), raised
\* at an await when the coroutine's own asyncio task is cancelled.
SvcCancelledError ==
    /\ UNCHANGED event_stream
    /\ UNCHANGED peer
    /\ Suspended
    /\ task' = [task EXCEPT !.status = "cancelled",
                            !.message = Msg("Download cancelled", <<>>)]
    /\ temp_path_exists' = CleanupTemp(temp_path_exists)
    /\ pc' = "svc_done"
    /\ UNCHANGED <<exc, main_vars, process, output_exists, svc_vars>>

\* cancel_task (lines 515-531), run by the event loop while start_download is
\* not running: before it starts, at one of its awaits, or after it has ended.
\* terminate() (and kill() after the 5 s wait) ends a Popen that still runs.
SvcCancelTask ==
    /\ UNCHANGED event_stream
    /\ UNCHANGED peer
    /\ pc = "svc_created" \/ Suspended \/ pc = "svc_done"
    /\ cancels < MaxCancels
    /\ cancels' = cancels + 1
    /\ process' = IF process.started /\ IsRunning(task) /\ process.running
                  THEN Exited(-15)
                  ELSE process
    /\ task' = [task EXCEPT !.status = "cancelled",
                            !.message = Msg("Download cancelled", <<>>)]
    /\ temp_path_exists' = CleanupTemp(temp_path_exists)
    /\ UNCHANGED <<pc, exc, main_vars, output_exists, ffmpeg_proc, streamlink_error,
                   launched>>

\* ------------------------------------------------- the event stream
\* A generator that breaks on success only.
EndsStreamOnSuccess(status) == status = "completed"

\* if task.get("status") in ["completed", "failed", "cancelled"]: break
EndsStream(status) == status \in {"completed", "failed", "cancelled"}

\* The event loop is free for a handler or a generator of main.py: run_download
\* and the three download functions hold it from their first statement to
\* their last, as none of their calls (requests, m3u8.load, Popen, readline,
\* wait) is awaited.
LoopFree == pc \in {"created", "done"}

\* One turn of the loop of event_generator: the event is built from the
\* task's record and sent; on a terminal status the generator breaks, else it
\* sleeps for 0.5 s.
Emit(es, t) ==
    [state |-> IF EndsStream(t.status) THEN "stopped" ELSE "open",
     last |-> <<[status |-> t.status, progress |-> t.progress,
                 message |-> t.message, error |-> t.error]>>,
     terminal_events |-> es.terminal_events + (IF EndsStream(t.status) THEN 1 ELSE 0)]

\* GET /api/events/{task_id} for the registered task: the generator starts and
\* runs its first turn.
StreamEvents ==
    /\ LoopFree
    /\ event_stream.state = "none"
    /\ event_stream' = Emit(event_stream, task)
    /\ UNCHANGED <<task, pc, exc, hls_vars, cmd, process, output_exists,
                   temp_path_exists, svc_vars, peer>>

\* asyncio.sleep(0.5) returns and the generator runs its next turn.
EventGeneratorWakes ==
    /\ LoopFree
    /\ event_stream.state = "open"
    /\ event_stream' = Emit(event_stream, task)
    /\ UNCHANGED <<task, pc, exc, hls_vars, cmd, process, output_exists,
                   temp_path_exists, svc_vars, peer>>

Next ==
    \/ RunDownload
    \/ HlsLoadPlaylist
    \/ HlsLoadVariant
    \/ HlsBuildTimeline
    \/ HlsSelectRange
    \/ HlsMkdtemp
    \/ HlsFetchSegment
    \/ HlsWriteConcat
    \/ HlsStartRemux
    \/ HlsRemuxExit
    \/ HlsFinally
    \/ RunDownloadExcept
    \/ RunDownloadCleanup
    \/ DirectStart
    \/ DirectExit
    \/ SlStart
    \/ SlExit
    \/ SlConvert
    \/ SlVerify
    \/ PeerRun
    \/ PeerScratch
    \/ PeerFinish
    \/ SvcStart
    \/ SvcStreamlinkStart
    \/ SvcStreamlinkExit
    \/ SvcYtdlpStart
    \/ SvcYtdlpExit
    \/ SvcProcessBegin
    \/ SvcFfmpegSpawn
    \/ SvcFfmpegExit
    \/ SvcExcept
    \/ SvcExceptCleanup
    \/ SvcCancelledError
    \/ SvcCancelTask
    \/ StreamEvents
    \/ EventGeneratorWakes

Spec == Init /\ [][Next]_vars

\* A step of run_download on the task: the background task is started, a
\* network call or a subprocess returns, a handler or a finally block runs.
RunDownloadStep ==
    \/ RunDownload
    \/ HlsLoadPlaylist
    \/ HlsLoadVariant
    \/ HlsBuildTimeline
    \/ HlsSelectRange
    \/ HlsMkdtemp
    \/ HlsFetchSegment
    \/ HlsWriteConcat
    \/ HlsStartRemux
    \/ HlsRemuxExit
    \/ HlsFinally
    \/ RunDownloadExcept
    \/ RunDownloadCleanup
    \/ DirectStart
    \/ DirectExit
    \/ SlStart
    \/ SlExit
    \/ SlConvert
    \/ SlVerify

\* The same program where every network call and every subprocess of
\* run_download returns, and the sleep of the event generator returns.
FairSpec ==
    /\ Spec
    /\ WF_vars(RunDownloadStep)
    /\ WF_vars(EventGeneratorWakes)

\* ------------------------------------------------------------ properties
\* The selection has been computed for the timeline in segments_with_times.
SelectionMade == segments_with_times # <<>> /\ pc # "hls_select"

\* The indices of a list of timed segments.
Indices(sel) == [k \in 1..Len(sel) |-> sel[k].index]

\* Four segments of ten seconds each.
TenSecondTimeline ==
    BuildTimeline(MediaPlaylist(0, <<Secs(10), Secs(10), Secs(10), Secs(10)>>).segments)

\* C1: in every state the selection is exactly the segments of the timeline
\* with end > start_sec and start < end_sec, in timeline order, and holds no
\* segment that only abuts the range; on four 10 s segments [15,25) selects
\* indices 1 and 2 and [10,20) selects index 1 alone.
C1_RangeSelection ==
    /\ SelectionMade =>
          /\ \A k \in 1..Len(segments_with_times) :
                (\E j \in 1..Len(selected_segments) :
                     selected_segments[j] = segments_with_times[k])
                <=> (/\ segments_with_times[k].end > start_sec
                     /\ segments_with_times[k].start < end_sec)
          /\ \A j \in 1..Len(selected_segments) :
                /\ selected_segments[j] = segments_with_times[selected_segments[j].index + 1]
                /\ selected_segments[j].end # start_sec
                /\ selected_segments[j].start # end_sec
          /\ \A j, k \in 1..Len(selected_segments) :
                j < k => selected_segments[j].index < selected_segments[k].index
    /\ Indices(SelectSegments(TenSecondTimeline.timed, Secs(15), Secs(25))) = <<1, 2>>
    /\ Indices(SelectSegments(TenSecondTimeline.timed, Secs(10), Secs(20))) = <<1>>

\* Three 1 s segments, range [1 s, 2 s): the middle one alone is selected and
\* both its neighbours abut the range.
C1_Witness ==
    /\ pc = "hls_mkdtemp"
    /\ Len(segments_with_times) = 3
    /\ \A k \in 1..3 : segments_with_times[k].duration = Secs(1)
    /\ start_sec = Secs(1)
    /\ end_sec = Secs(2)
    /\ Indices(selected_segments) = <<1>>

\* C2 as claimed: whenever the concatenation remux is invoked, the seek fed to
\* it is start_sec - first selected start and the duration end_sec - start_sec.
C2_TrimFedAsClaimed ==
    cmd.mode = "concat" =>
        /\ EffectiveSeek(cmd) = start_sec - selected_segments[1].start
        /\ cmd.t = <<end_sec - start_sec>>

\* What does hold of the values fed to the concatenation remux: the duration
\* is end_sec - start_sec, and for a requested start >= 0 the seek is
\* start_sec - first selected start (no -ss when that is 0); a negative
\* requested start gets no seek.
C2_TrimOffset ==
    cmd.mode = "concat" =>
        /\ cmd.t = <<end_sec - start_sec>>
        /\ start_sec >= 0 =>
              EffectiveSeek(cmd) = start_sec - selected_segments[1].start
        /\ start_sec < 0 => cmd.ss = <<>>

\* The remux runs with a positive trim: the request starts 0.25 s into the
\* second 0.75 s segment.
C2_Witness ==
    /\ pc = "hls_wait"
    /\ cmd.mode = "concat"
    /\ selected_segments[1].start = 3
    /\ start_sec = Secs(1)
    /\ end_sec = Secs(2)
    /\ cmd.ss = <<1>>
    /\ cmd.t = <<Secs(1)>>

\* The range error is in flight or recorded on the task.
RangeErrorRaised ==
    \/ exc.text = "No segments found in requested time range"
    \/ task.error.text = "No segments found in requested time range"

RaisedRangeError == IF exc # NoExc THEN exc ELSE task.error

\* What C3 says apart from the total the error carries: an empty selection
\* raises the range error and nothing else, the error carries the requested
\* start and end, the task ends failed with it, and no segment was requested,
\* no scratch directory exists and no subprocess was started.
NoCoverageFailsClean ==
    /\ (SelectionMade /\ selected_segments = <<>>) <=> RangeErrorRaised
    /\ RangeErrorRaised =>
          /\ RaisedRangeError.args[1] = start_sec
          /\ RaisedRangeError.args[2] = end_sec
          /\ seg_requests = <<>>
          /\ segment_files = <<>>
          /\ temp_dir = NoDir
          /\ concat_list = <<>>
          /\ ~process.started
          /\ cmd = NoCmd
          /\ pc = "done" => task.status = "failed" /\ task.error = RaisedRangeError
    /\ pc \in {"hls_load", "hls_variant", "hls_timeline", "hls_select"} =>
          temp_dir = NoDir /\ ~process.started

\* C3 as claimed: the error carries the observed total duration itself (its
\* third argument, in tenths of a second, is the total exactly).
C3_TotalCarriedExactly ==
    /\ NoCoverageFailsClean
    /\ RangeErrorRaised =>
          RaisedRangeError.args[3] * TicksPerSec = total_duration * 10

\* C3: when no segment overlaps the requested range the task fails with the
\* range error, which carries the requested start and end and the total
\* duration rounded to one decimal place (within 0.05 s of it); no segment is
\* downloaded, no scratch directory is created and no remux is invoked.
C3_NoCoverage ==
    /\ NoCoverageFailsClean
    /\ RangeErrorRaised =>
          LET d == RaisedRangeError.args[3] * TicksPerSec - total_duration * 10
          IN  2 * d <= TicksPerSec /\ 2 * d >= -TicksPerSec

\* A request past the end of a 1.75 s timeline has failed: the error reports 1.8 s.
C3_Witness ==
    /\ pc = "done"
    /\ task.status = "failed"
    /\ task.error.text = "No segments found in requested time range"
    /\ total_duration = 7
    /\ start_sec = Secs(2)
    /\ task.error.args[3] = 18

RECURSIVE SumDurations(_)
SumDurations(segments) ==
    IF segments = <<>> THEN 0 ELSE segments[1].duration + SumDurations(Tail(segments))

\* C4: a built timeline has total_duration equal to the sum of the manifest's
\* durations, its first segment starts at 0, and its start times do not
\* decrease in manifest order.
C4_TimelineInvariant ==
    segments_with_times # <<>> =>
        /\ \A k \in 1..Len(playlist.segments) : playlist.segments[k].duration > 0
        /\ Len(segments_with_times) = Len(playlist.segments)
        /\ total_duration = SumDurations(playlist.segments)
        /\ segments_with_times[1].start = 0
        /\ \A k \in 1..(Len(segments_with_times) - 1) :
              segments_with_times[k].start <= segments_with_times[k + 1].start

\* A timeline of three segments of mixed durations has been built.
C4_Witness ==
    /\ pc = "hls_select"
    /\ Len(segments_with_times) = 3
    /\ segments_with_times[1].duration = 3
    /\ segments_with_times[2].duration = 4
    /\ total_duration = 10

\* C5: in a built timeline every segment ends at its start plus its manifest
\* duration, every segment but the last ends where the next one starts, and
\* every segment's index is its manifest position.
C5_TimelineContiguity ==
    \A k \in 1..Len(segments_with_times) :
        /\ segments_with_times[k].end
              = segments_with_times[k].start + playlist.segments[k].duration
        /\ segments_with_times[k].index = k - 1
        /\ segments_with_times[k].uri = playlist.segments[k].uri
        /\ k < Len(segments_with_times) =>
              segments_with_times[k].end = segments_with_times[k + 1].start

\* A timeline of three segments with durations 1 s, 0.75 s, 1 s has been built.
C5_Witness ==
    /\ Len(segments_with_times) = 3
    /\ segments_with_times[1].end = 4
    /\ segments_with_times[2].start = 4
    /\ segments_with_times[2].end = 7
    /\ segments_with_times[3].start = 7
    /\ segments_with_times[3].index = 2

\* A variant's bitrate, a missing one counting as 0.
Bitrate(v) == IF Len(v.bandwidth) = 0 THEN 0 ELSE v.bandwidth[1]

\* C6: the step that resolves a master manifest loads the media manifest of a
\* variant of maximum bitrate (a missing bitrate counting as 0), the first in
\* manifest order among those of maximum bitrate; bitrates 500, 3000, 1200
\* resolve to the 3000 variant.
C6_MasterResolution ==
    [][(pc = "hls_variant" /\ pc' # pc) =>
          LET ps == playlist.playlists
              b == best_variant'[1]
          IN  /\ b.pos \in 1..Len(ps)
              /\ b = ps[b.pos]
              /\ \A k \in 1..Len(ps) : Bitrate(ps[k]) <= Bitrate(b)
              /\ \A k \in 1..(b.pos - 1) : Bitrate(ps[k]) < Bitrate(b)
              /\ loads' = Append(loads, b.pos)
              /\ pc' = "hls_timeline" =>
                    \A k \in 1..Len(playlist'.segments) :
                        playlist'.segments[k].uri.src = b.pos
              /\ BestVariant(MasterPlaylist(<<<<500>>, <<3000>>, <<1200>>>>).playlists).pos = 2
    ]_vars

\* The media manifest of the third variant was loaded: it declares bitrate 5
\* and both variants before it declare less.
C6_Witness ==
    /\ pc = "hls_timeline"
    /\ loads = <<0, 3>>
    /\ best_variant = <<[bandwidth |-> <<5>>, pos |-> 3]>>
    /\ playlist.segments # <<>>
    /\ \A k \in 1..Len(playlist.segments) : playlist.segments[k].uri.src = 3

\* A segment download has failed: its error is in flight or recorded.
SegmentFailed ==
    \/ exc.text = "Failed to download segment"
    \/ task.error.text = "Failed to download segment"

RaisedSegmentError == IF exc # NoExc THEN exc ELSE task.error

\* What C7 says apart from the index the error names: the segments requested
\* are the first selected ones, once each and in order; after a failed
\* download nothing later is requested, concat.txt is not written, no
\* subprocess is started and the task ends failed with that error.
FetchFailsFast ==
    /\ Len(seg_requests) <= Len(selected_segments)
    /\ \A k \in 1..Len(seg_requests) : seg_requests[k] = selected_segments[k].uri
    /\ \A j, k \in 1..Len(seg_requests) : j # k => seg_requests[j] # seg_requests[k]
    /\ SegmentFailed =>
          /\ Len(seg_requests) = Len(segment_files) + 1
          /\ concat_list = <<>>
          /\ ConcatFile \notin temp_dir.files
          /\ ~process.started
          /\ cmd = NoCmd
          /\ pc \in {"hls_finally", "except", "except_cleanup", "done"}
          /\ pc = "done" => task.status = "failed" /\ task.error = RaisedSegmentError

\* C7 as claimed: the error names the failed segment's index, its position in
\* the manifest.
C7_ErrorNamesManifestIndex ==
    /\ FetchFailsFast
    /\ SegmentFailed =>
          RaisedSegmentError.args[1] = selected_segments[Len(seg_requests)].index

\* What does hold of a failed fetch: each selected segment is requested at
\* most once; at the first failed download no later segment is requested, no
\* concat list is written, the remux is not invoked and the task ends failed
\* with an error naming the failed segment's 0-based position in the selection.
C7_FetchFailsFast ==
    /\ FetchFailsFast
    /\ SegmentFailed => RaisedSegmentError.args[1] = Len(seg_requests) - 1

\* The second of three selected segments failed: the task is failed, the
\* third was never requested.
C7_Witness ==
    /\ pc = "done"
    /\ task.status = "failed"
    /\ task.error.text = "Failed to download segment"
    /\ task.error.args = <<1>>
    /\ Len(selected_segments) = 3
    /\ Len(seg_requests) = 2
    /\ Len(segment_files) = 1

RemuxRan == cmd.mode \in {"concat", "direct"} /\ process.returncode # <<>>

\* C9: in both remux modes a task is completed, with progress 100, only if
\* FFmpeg exited with code 0 and the output file exists; a nonzero exit code
\* fails the task with the remux error, and exit code 0 without the output
\* file fails it with the output-missing error.
C9_RemuxOutcome ==
    /\ (cmd.mode \in {"concat", "direct"} /\ task.status = "completed") =>
          /\ process.returncode = <<0>>
          /\ output_exists
          /\ task.progress = Frac(100, 1)
    /\ (RemuxRan /\ pc = "done") =>
          /\ process.returncode # <<0>> =>
                /\ task.status = "failed"
                /\ task.error.text = (IF cmd.mode = "concat"
                                      THEN "FFmpeg concatenation failed"
                                      ELSE "FFmpeg download failed")
          /\ (process.returncode = <<0>> /\ ~output_exists) =>
                /\ task.status = "failed"
                /\ task.error.text = "Output file was not created"
          /\ (process.returncode = <<0>> /\ output_exists) =>
                task.status = "completed"

\* The concatenation remux exited 0 and left no output file: the task failed.
C9_Witness ==
    /\ pc = "done"
    /\ cmd.mode = "concat"
    /\ process.returncode = <<0>>
    /\ ~output_exists
    /\ task.status = "failed"
    /\ task.error.text = "Output file was not created"

Min(a, b) == IF a < b THEN a ELSE b

\* C10: for a request with 0 <= start < end and start < total_duration the
\* selection is not empty, its first segment holds start, its last segment
\* ends at or after min(end, total), every instant of [start, min(end, total))
\* lies in a selected segment, and the window the remux trims, from first
\* start + seek for the duration, is [start, end).
C10_Coverage ==
    (SelectionMade /\ 0 <= start_sec /\ start_sec < end_sec
                   /\ start_sec < total_duration) =>
        /\ selected_segments # <<>>
        /\ LET first == selected_segments[1]
               last == selected_segments[Len(selected_segments)]
               upto == Min(end_sec, total_duration)
           IN  /\ first.start <= start_sec
               /\ start_sec < first.end
               /\ last.end >= upto
               /\ \A x \in start_sec..(upto - 1) :
                     \E j \in 1..Len(selected_segments) :
                         /\ selected_segments[j].start <= x
                         /\ x < selected_segments[j].end
               /\ cmd.mode = "concat" =>
                     /\ first.start + EffectiveSeek(cmd) = start_sec
                     /\ first.start + EffectiveSeek(cmd) + cmd.t[1] = end_sec

\* The remux trims [1 s, 2 s) out of the second and third of three 0.75 s
\* segments, which span [0.75 s, 2.25 s).
C10_Witness ==
    /\ pc = "hls_wait"
    /\ cmd.mode = "concat"
    /\ start_sec = Secs(1)
    /\ end_sec = Secs(2)
    /\ Indices(selected_segments) = <<1, 2>>
    /\ selected_segments[1].start = 3
    /\ selected_segments[2].end = 9

\* C11: the selected segments are a contiguous run of the timeline: between
\* two selected segments no segment of the timeline is left out, that is, the
\* indices of the selection go up by one.
C11_ContiguousSelection ==
    SelectionMade =>
        /\ \A j \in 1..(Len(selected_segments) - 1) :
              selected_segments[j + 1].index = selected_segments[j].index + 1
        /\ \A a, b \in 1..Len(selected_segments) :
              \A k \in 1..Len(segments_with_times) :
                  (/\ selected_segments[a].index < segments_with_times[k].index
                   /\ segments_with_times[k].index < selected_segments[b].index)
                  => \E c \in 1..Len(selected_segments) :
                         selected_segments[c] = segments_with_times[k]

\* All three segments of a timeline are selected, the middle one lying
\* strictly between two selected ones.
C11_Witness ==
    /\ pc = "hls_mkdtemp"
    /\ Len(segments_with_times) = 3
    /\ Indices(selected_segments) = <<0, 1, 2>>

\* C12: the segments are requested one at a time in timeline order (request
\* k is for the k-th selected segment and is made only after the files of all
\* earlier ones are written), each is written to its own file inside the
\* scratch directory, and the concat list, once written, names exactly the
\* downloaded files, once each, in that order.
C12_OrderPreservation ==
    /\ Len(segment_files) <= Len(seg_requests)
    /\ Len(seg_requests) <= Len(segment_files) + 1
    /\ Len(seg_requests) <= Len(selected_segments)
    /\ \A k \in 1..Len(seg_requests) :
          /\ seg_requests[k] = selected_segments[k].uri
          /\ k > 1 => selected_segments[k - 1].index < selected_segments[k].index
    /\ \A j, k \in 1..Len(segment_files) :
          j # k => segment_files[j] # segment_files[k]
    /\ \A k \in 1..Len(segment_files) :
          /\ segment_files[k].kind = "segment"
          /\ temp_dir.exists => segment_files[k] \in temp_dir.files
    /\ concat_list # <<>> =>
          /\ concat_list[1] = segment_files
          /\ Len(concat_list[1]) = Len(selected_segments)
          /\ Len(seg_requests) = Len(selected_segments)

\* Three segments were downloaded and the concat list names their three files.
C12_Witness ==
    /\ pc = "hls_remux"
    /\ Len(selected_segments) = 3
    /\ concat_list = <<(<<SegmentFile(0), SegmentFile(1), SegmentFile(2)>>)>>
    /\ temp_dir.files = {SegmentFile(0), SegmentFile(1), SegmentFile(2), ConcatFile}

\* The task was routed to the direct FFmpeg path.
TookDirectPath == pc \in {"direct_start", "direct_wait"} \/ cmd.mode = "direct"

\* The request names a start or an end time.
HasTimeRange(t) == Truthy(t.start_time) \/ Truthy(t.end_time)

\* C13: the direct path is taken only for VOD content or for live content
\* with no start and no end time, and a task on it builds no timeline and
\* selects no range; a live request with a start or an end time and a known
\* manifest URL takes the timeline/range/segment path.
C13_StrategyRouting ==
    /\ TookDirectPath =>
          /\ task.url_is_vod \/ ~HasTimeRange(task)
          /\ loads = <<>>
          /\ segments_with_times = <<>>
          /\ selected_segments = <<>>
    /\ (/\ pc # "created"
        /\ ~task.url_is_vod
        /\ HasTimeRange(task)
        /\ task.has_playback_url) =>
          /\ ~TookDirectPath
          /\ loads # <<>>

\* C14: the stages of the segment path run strictly one after the other:
\* a timeline exists only after a manifest was fetched, a selection only
\* after the timeline, segment requests only after the selection, and the
\* remux command and its subprocess only after every selected segment was
\* downloaded and written and the concat list made; while a stage runs, no
\* later stage has left a trace.
C14_StageOrdering ==
    /\ pc \in {"hls_load", "hls_variant"} => segments_with_times = <<>>
    /\ pc \in {"hls_load", "hls_variant", "hls_timeline", "hls_select"} =>
          /\ selected_segments = <<>>
          /\ seg_requests = <<>>
    /\ pc \in {"hls_load", "hls_variant", "hls_timeline", "hls_select",
               "hls_mkdtemp", "hls_fetch", "hls_concat"} =>
          /\ concat_list = <<>>
          /\ cmd = NoCmd
          /\ ~process.started
    /\ segments_with_times # <<>> => loads # <<>> /\ playlist.segments # <<>>
    /\ selected_segments # <<>> => segments_with_times # <<>>
    /\ seg_requests # <<>> => selected_segments # <<>>
    /\ concat_list # <<>> => Len(segment_files) = Len(selected_segments)
    /\ cmd.mode = "concat" =>
          /\ concat_list # <<>>
          /\ Len(segment_files) = Len(selected_segments)
          /\ Len(seg_requests) = Len(selected_segments)
    /\ (cmd.mode = "concat" /\ process.running) =>
          /\ \A k \in 1..Len(segment_files) : segment_files[k] \in temp_dir.files
          /\ ConcatFile \in temp_dir.files

\* The remux runs over the files of three downloaded segments.
C14_Witness ==
    /\ pc = "hls_wait"
    /\ process.running
    /\ Len(selected_segments) = 3
    /\ Len(segment_files) = 3
    /\ loads = <<0>>

\* C15: when a call of cancel_task returns (it returns True for a registered
\* task), no subprocess started for the task is still running: neither the
\* download tool in task.process nor the FFmpeg of the processing phase.
C15_CancelTerminatesSubprocesses ==
    [][cancels' = cancels + 1 => ~process'.running /\ ~ffmpeg_proc'.running]_vars

\* C16: in every state where the task's status is failed, its scratch files
\* are already removed: the scratch directory with everything in it and the
\* temp file.
C16_CleanupPrecedesFailed ==
    task.status = "failed" => temp_dir = NoDir /\ ~temp_path_exists

\* The text a handler records for an error: its message, "Unknown error" for
\* an empty one.
ReportedError(e) ==
    IF e.text = "" /\ e.cause = "" THEN Exc("Unknown error", <<>>, "") ELSE e

\* C17: the step that handles a raised error leaves the task failed, its
\* error field holding the error's message (or "Unknown error"), its message
\* field "Failed: " and the same text; failed is terminal: from then on the
\* status, the error and the message stay as they are, and in particular the
\* status never becomes completed.
C17_FailureReporting ==
    [][/\ (exc # NoExc /\ exc' = NoExc) =>
             /\ task'.status = "failed"
             /\ task'.error = ReportedError(exc)
             /\ task'.message = [text |-> "Failed", args |-> <<>>,
                                 err |-> ReportedError(exc)]
       /\ task.status = "failed" =>
             /\ task'.status = "failed"
             /\ task'.error = task.error
             /\ task'.message = task.message
    ]_vars

\* The empty-manifest error is in flight or recorded on the task.
EmptyManifestRaised ==
    \/ exc.text = "No segments found in HLS playlist"
    \/ task.error.text = "No segments found in HLS playlist"

\* C18: the playback URL is fetched once; a master manifest is followed by
\* exactly one further fetch, that of the chosen variant, and a media
\* manifest by none; a timeline is only ever built over the segments of the
\* manifest fetched last, which is a media manifest; and a manifest without
\* segments fails the task with the empty-manifest error before any timeline
\* is built or any later stage runs.
C18_SingleResolution ==
    /\ Len(loads) <= 2
    /\ loads # <<>> => loads[1] = 0
    /\ pc = "hls_variant" => playlist.is_variant /\ Len(loads) = 1
    /\ pc # "hls_variant" => (Len(loads) = 2 <=> best_variant # <<>>)
    /\ Len(loads) = 2 =>
          /\ best_variant # <<>>
          /\ loads[2] = best_variant[1].pos
          /\ loads[2] # 0
    /\ segments_with_times # <<>> =>
          /\ ~playlist.is_variant
          /\ Len(segments_with_times) = Len(playlist.segments)
          /\ \A k \in 1..Len(segments_with_times) :
                /\ segments_with_times[k].uri = playlist.segments[k].uri
                /\ segments_with_times[k].uri.src = loads[Len(loads)]
    /\ pc \in {"hls_select", "hls_mkdtemp", "hls_fetch", "hls_concat", "hls_remux",
               "hls_wait", "hls_finally"} =>
          /\ playlist.segments # <<>>
          /\ segments_with_times # <<>>
    /\ EmptyManifestRaised =>
          /\ playlist.segments = <<>>
          /\ segments_with_times = <<>>
          /\ selected_segments = <<>>
          /\ seg_requests = <<>>
          /\ pc \in {"except", "except_cleanup", "done"}
          /\ pc = "done" => task.status = "failed"

\* A master manifest was resolved to its second variant, whose media manifest
\* has no segments: the task failed with two fetches made and no timeline.
C18_Witness ==
    /\ pc = "done"
    /\ loads = <<0, 2>>
    /\ task.status = "failed"
    /\ task.error.text = "No segments found in HLS playlist"
    /\ segments_with_times = <<>>

\* C19: on the segment path, once the k-th of n selected segments (k from 1)
\* is being handled and until the concat list is written, progress is
\* k/n * 80, more than 0 and at most 80; a value above 80 is reported only
\* when the fetch phase is over: 85 with the concat list written, 90 with the
\* remux started, 100 with the task completed.
C19_FetchProgress ==
    loads # <<>> =>
        /\ (seg_requests # <<>> /\ concat_list = <<>>) =>
              /\ task.progress = Frac(Len(seg_requests) * 80, Len(selected_segments))
              /\ task.progress.num > 0
              /\ task.progress.num <= 80 * task.progress.den
        /\ task.progress.num > 80 * task.progress.den =>
              /\ concat_list # <<>>
              /\ Len(segment_files) = Len(selected_segments)
              /\ task.progress \in {Frac(85, 1), Frac(90, 1), Frac(100, 1)}
              /\ task.progress = Frac(90, 1) => process.started
              /\ task.progress = Frac(100, 1) => task.status = "completed"
        /\ pc = "hls_remux" => task.progress = Frac(85, 1)
        /\ pc = "hls_wait" => task.progress = Frac(90, 1)

\* The second of three segments is being handled: progress is 2/3 of 80.
C19_Witness ==
    /\ pc = "hls_fetch"
    /\ Len(selected_segments) = 3
    /\ Len(seg_requests) = 2
    /\ task.progress = Frac(160, 3)

\* A step of the other task.
PeerStep == PeerRun \/ PeerScratch \/ PeerFinish

\* C20: with two tasks of the registry running concurrently, a step of one
\* task leaves the other task's record (status, progress, message, error)
\* and scratch (its scratch directory, its temp file) as they are, in both
\* directions and under every interleaving.
C20_TaskIndependence ==
    [][/\ ~PeerStep => peer' = peer
       /\ PeerStep => /\ task' = task
                      /\ temp_dir' = temp_dir
                      /\ temp_path_exists' = temp_path_exists
    ]_vars

\* Two tasks for the same channel, both with a temp file on disk: this one
\* has failed and is about to remove its own.
C20_Witness ==
    /\ peer.present
    /\ peer.same_channel
    /\ peer.status = "downloading"
    /\ peer.temp
    /\ pc = "except_cleanup"
    /\ temp_path_exists

\* The number of starts of a tool in the log.
Starts(tool) == Cardinality({k \in 1..Len(launched) : launched[k] = tool})

RequestedStart == IF Truthy(task.start_time) THEN Secs(time_to_seconds(task.start_time)) ELSE 0
RequestedEnd == Secs(time_to_seconds(task.end_time))

\* The selection runs without a gap through the last segment of the timeline,
\* from the segment that holds start (from the first segment of the timeline
\* for a start before 0, which no segment holds).
RunsToTheEndFrom(start) ==
    /\ selected_segments # <<>>
    /\ selected_segments[Len(selected_segments)]
          = segments_with_times[Len(segments_with_times)]
    /\ \A j \in 1..(Len(selected_segments) - 1) :
          selected_segments[j + 1].index = selected_segments[j].index + 1
    /\ selected_segments[1].end > start
    /\ start >= 0 => selected_segments[1].start <= start
    /\ start < 0 => selected_segments[1].index = 0

\* C22: for a request with an end time beyond the total duration and a start
\* before it, the selection does not fail: it is the run of segments from the
\* one holding start through the last segment of the timeline, and the
\* duration given to the remux is the requested end - start, not clamped to
\* the total.
C22_EndBeyondWindow ==
    (/\ SelectionMade
     /\ Truthy(task.end_time)
     /\ RequestedStart < total_duration
     /\ total_duration < RequestedEnd) =>
        /\ start_sec = RequestedStart
        /\ ~RangeErrorRaised
        /\ RunsToTheEndFrom(RequestedStart)
        /\ cmd.mode = "concat" =>
              /\ cmd.t = <<RequestedEnd - RequestedStart>>
              /\ cmd.t[1] > total_duration - RequestedStart

\* A request for [1 s, 60 s) on a 2.5 s timeline: the second and third
\* segments are selected and the remux is given 59 s.
C22_Witness ==
    /\ pc = "hls_wait"
    /\ total_duration = 10
    /\ start_sec = Secs(1)
    /\ end_sec = Secs(60)
    /\ Indices(selected_segments) = <<1, 2>>
    /\ cmd.t = <<Secs(59)>>

\* C23: when no end time is given, end_sec is the total duration of the
\* timeline: for a start before the total the selection is every segment from
\* the one holding start through the last, and the duration given to the
\* remux is total_duration - start; for a start at or past the total nothing
\* is selected.
C23_EndDefaultsToTotal ==
    (SelectionMade /\ ~Truthy(task.end_time)) =>
        /\ start_sec = RequestedStart
        /\ end_sec = total_duration
        /\ RequestedStart < total_duration =>
              /\ RunsToTheEndFrom(RequestedStart)
              /\ cmd.mode = "concat" => cmd.t = <<total_duration - RequestedStart>>
        /\ RequestedStart >= total_duration =>
              /\ selected_segments = <<>>
              /\ cmd = NoCmd

\* A request from 1 s with no end on a 2.5 s timeline: the second and third
\* segments are selected and the remux is given 1.5 s.
C23_Witness ==
    /\ pc = "hls_wait"
    /\ ~Truthy(task.end_time)
    /\ total_duration = 10
    /\ start_sec = Secs(1)
    /\ end_sec = 10
    /\ Indices(selected_segments) = <<1, 2>>
    /\ cmd.t = <<6>>

\* C24: the direct command carries a seek, the start time as given, exactly
\* when a start time is given; it carries a duration cap exactly when an end
\* time is given and end - start > 0 (start counting as 0 when absent), and
\* the cap is end - start; for end <= start there is no cap.
C24_DirectDurationCap ==
    cmd.mode = "direct" =>
        /\ cmd.ss = <<>>
        /\ cmd.ss_text # NoTime <=> Truthy(task.start_time)
        /\ Truthy(task.start_time) => cmd.ss_text = task.start_time
        /\ cmd.t # <<>> <=>
              (Truthy(task.end_time) /\ RequestedEnd - RequestedStart > 0)
        /\ cmd.t # <<>> => cmd.t = <<RequestedEnd - RequestedStart>>
        /\ (Truthy(task.end_time) /\ RequestedEnd <= RequestedStart) => cmd.t = <<>>

\* A direct download from 2 s to 1 s runs: a seek and no cap.
C24_Witness ==
    /\ pc = "direct_wait"
    /\ cmd.mode = "direct"
    /\ task.start_time = TimeStr(<<0, 2>>)
    /\ task.end_time = TimeStr(<<1>>)
    /\ cmd.ss_text = TimeStr(<<0, 2>>)
    /\ cmd.t = <<>>

\* C25: whenever the concatenation remux is invoked, the duration given to
\* it is strictly positive, and so is end_sec - start_sec whenever the
\* selection is not empty.
C25_PositiveDuration ==
    /\ cmd.mode = "concat" => cmd.t[1] > 0
    /\ (SelectionMade /\ selected_segments # <<>>) => end_sec - start_sec > 0

\* C26: once the status of a DownloaderService task is cancelled it stays
\* cancelled, and no subprocess is started for the task from then on.
C26_CancelledIsAbsorbing ==
    [][task.status = "cancelled" =>
          /\ task'.status = "cancelled"
          /\ launched' = launched
    ]_vars

\* C27: for a requested start >= 0 and a non-empty selection the trim offset
\* lies in [0, duration of the first selected segment); the remux gets -ss
\* exactly when the start lies strictly inside that segment and no -ss exactly
\* when the start coincides with the segment's beginning.
C27_TrimInsideFirstSegment ==
    /\ (SelectionMade /\ selected_segments # <<>> /\ start_sec >= 0) =>
          /\ 0 <= TrimStart(start_sec, selected_segments)
          /\ TrimStart(start_sec, selected_segments) < selected_segments[1].duration
    /\ (cmd.mode = "concat" /\ start_sec >= 0) =>
          /\ cmd.ss # <<>> <=>
                /\ selected_segments[1].start < start_sec
                /\ start_sec < selected_segments[1].end
          /\ cmd.ss = <<>> <=> start_sec = selected_segments[1].start

\* The remux runs without -ss for a start of 1 s that coincides with the
\* beginning of the second segment.
C27_Witness ==
    /\ pc = "hls_wait"
    /\ cmd.mode = "concat"
    /\ start_sec = Secs(1)
    /\ selected_segments[1].index = 1
    /\ selected_segments[1].start = start_sec
    /\ cmd.ss = <<>>

\* C28: two tasks in the registry never have the same output path nor the
\* same temp path, also when they are for the same channel and were created
\* within the same second.
C28_DistinctPaths ==
    peer.present =>
        /\ OutputPath(OwnIdentifier, OwnTimestamp)
              # OutputPath(PeerIdentifier(peer), PeerTimestamp)
        /\ TempPath(OwnId, OwnIdentifier) # TempPath(PeerId, PeerIdentifier(peer))

\* a <= b for two fractions with positive denominators.
FracLeq(a, b) == a.num * b.den <= b.num * a.den

\* The progress value p lies in [0, 100].
InPercentRange(p) == FracLeq(Frac(0, 1), p) /\ FracLeq(p, Frac(100, 1))

\* C29: for a task that run_download routes to download_with_hls_segments,
\* no step lowers the progress, the progress stays within [0, 100] before and
\* after every step, and it is 100 only while the status is completed.
C29_ProgressMonotone ==
    [][Route(task) = "hls_load" =>
          /\ FracLeq(task.progress, task'.progress)
          /\ InPercentRange(task.progress)
          /\ InPercentRange(task'.progress)
          /\ task.progress = Frac(100, 1) => task.status = "completed"
          /\ task'.progress = Frac(100, 1) => task'.status = "completed"
    ]_vars

\* A task of the segment path has fetched three segments, been remuxed and
\* ended completed at 100.
C29_Witness ==
    /\ Route(task) = "hls_load"
    /\ pc = "done"
    /\ Len(seg_requests) = 3
    /\ task.status = "completed"
    /\ task.progress = Frac(100, 1)

\* The task is registered in main.py and run_download has not started on it.
Registered == pc = "created"

\* run_download has returned and left the task completed or failed.
Terminated == pc = "done" /\ task.status \in {"completed", "failed"}

\* The event stream has sent exactly one event with a terminal status, which
\* is the task's status and its last event, and has stopped.
StreamClosed ==
    /\ event_stream.state = "stopped"
    /\ event_stream.terminal_events = 1
    /\ event_stream.last[1].status = task.status
    /\ Terminated

\* No stream is left open: none was asked for, or the one asked for has closed.
StreamSettled == event_stream.state = "none" \/ StreamClosed

\* C30: when every network call and every subprocess returns, run_download
\* leaves a registered task completed or failed, whichever of the three
\* strategies it is routed to, and an event stream opened for the task then
\* sends one event with the terminal status and stops; it never sends a
\* second terminal event.
C30_Terminates ==
    /\ (Registered \/ event_stream.state = "open") ~> (Terminated /\ StreamSettled)
    /\ [](event_stream.terminal_events = IF event_stream.state = "stopped" THEN 1 ELSE 0)

\* The event stream of a task of the segment path that failed after some
\* progress has sent the failed status and has stopped.
C30_Witness ==
    /\ StreamClosed
    /\ Route(task) = "hls_load"
    /\ task.status = "failed"
    /\ event_stream.last[1].progress # Frac(0, 1)

====
